---- MODULE Spec2Model ----
(***************************************************************************)
(* Model of the Python output of typeshare: the generated modules (their   *)
(* top-level declarations in emission order, the pydantic models they      *)
(* declare and how those decode a wire object), the scalar codecs the      *)
(* generated modules carry (bytes, timestamps), the string constants, and  *)
(* the resolver stages of the generator that decide what is emitted.       *)
(***************************************************************************)
EXTENDS Integers, Sequences, FiniteSets, TLC

VARIABLES
    module,     \* name of the generated module being loaded
    pc,         \* number of top-level statements of it already executed
    defined,    \* names bound so far, in the order they were bound
    status,     \* "loading" | "loaded" | "NameError"
    validated,  \* last decode: [cls, wire, outcome] or NoValidation
    value,      \* byte codec: the wire value handed to deserialize_binary_data
    binary,     \* byte codec: what deserialize_binary_data returned or raised
    serialized, \* byte codec: what serialize_binary_data returned
    date_str,   \* timestamp codec: the wire string handed to parse_rfc3339
    utc_time,   \* timestamp codec: what parse_rfc3339 returned or raised
    time_str,   \* timestamp codec: what serialize_datetime_data returned
    reparsed,   \* timestamp codec: parse_rfc3339 of time_str
    ir,         \* target filter: the unit's type definitions
    requested,  \* target filter: the requested platform
    filtered,   \* target filter: the definitions that survive
    field,      \* naming: the field being resolved
    convention, \* naming: the container's case convention
    wire_name,  \* naming: the resolved wire name
    const_value, \* literal renderer: the constant's value
    rendered,   \* literal renderer: the literal text, part by part
    evaluated   \* literal renderer: what Python evaluates the text to

moduleVars == <<module, pc, defined, status, validated>>
bytesVars == <<value, binary, serialized>>
timeVars == <<date_str, utc_time, time_str, reparsed>>
filterVars == <<ir, requested, filtered>>
namingVars == <<field, convention, wire_name>>
literalVars == <<const_value, rendered, evaluated>>
vars == <<moduleVars, bytesVars, timeVars, filterVars, namingVars, literalVars>>

exceptModule == <<bytesVars, timeVars, filterVars, namingVars, literalVars>>
exceptBytes == <<moduleVars, timeVars, filterVars, namingVars, literalVars>>
exceptTime == <<moduleVars, bytesVars, filterVars, namingVars, literalVars>>
exceptFilter == <<moduleVars, bytesVars, timeVars, namingVars, literalVars>>
exceptNaming == <<moduleVars, bytesVars, timeVars, filterVars, literalVars>>
exceptLiteral == <<moduleVars, bytesVars, timeVars, filterVars, namingVars>>

----------------------------------------------------------------------------
(* Type expressions as they appear in annotations.                          *)

NoType == [k |-> "none", n |-> "", of |-> <<>>]
Prim(n) == [k |-> "prim", n |-> n, of |-> <<>>]
Named(n) == [k |-> "named", n |-> n, of |-> <<>>]
Opt(t) == [k |-> "opt", n |-> "", of |-> <<t>>]
ListOf(t) == [k |-> "list", n |-> "", of |-> <<t>>]
DictOf(t) == [k |-> "dict", n |-> "", of |-> <<t>>]
UnionOf(names) == [k |-> "union", n |-> "", of |-> [i \in 1..Len(names) |-> Named(names[i])]]
LiteralOf(enum, member) == [k |-> "literal", n |-> member, of |-> <<Named(enum)>>]

(* A field of a BaseModel class: identifier, annotation, alias ("" when     *)
(* there is no Field(alias=...)) and whether the declaration has a default. *)
Fld(id, ty, alias, hasDefault) ==
    [id |-> id, ty |-> ty, alias |-> alias, hasDefault |-> hasDefault]

Cls(name, fields) ==
    [kind |-> "class", name |-> name, fields |-> fields, members |-> <<>>, ty |-> NoType]
StrEnum(name, members) ==
    [kind |-> "strenum", name |-> name, fields |-> <<>>, members |-> members, ty |-> NoType]
AliasDef(name, ty) ==
    [kind |-> "alias", name |-> name, fields |-> <<>>, members |-> <<>>, ty |-> ty]
Member(id, val) == [id |-> id, value |-> val]

(* The discriminant field of a variant class:                               *)
(*   type: Literal[<E>Types.<M>] = <E>Types.<M>                             *)
TypeField(key, carrier, member) == Fld(key, LiteralOf(carrier, member), "", TRUE)

----------------------------------------------------------------------------
(* The generated modules, statement by statement.                           *)

OrdersTypesSwapped ==
    << Cls("A", << Fld("field", Prim("int"), "", FALSE) >>),
       Cls("B", << Fld("depends_on", Named("A"), "dependsOn", FALSE) >>),
       Cls("C", << Fld("depends_on", Named("B"), "dependsOn", FALSE) >>),
       Cls("D", << Fld("depends_on", Named("C"), "dependsOn", FALSE),
                   Fld("also_depends_on", Opt(Named("E")), "alsoDependsOn", TRUE) >>),
       Cls("E", << Fld("depends_on", Named("D"), "dependsOn", FALSE) >>) >>

OrdersTypes ==
    << Cls("A", << Fld("field", Prim("int"), "", FALSE) >>),
       Cls("B", << Fld("depends_on", Named("A"), "dependsOn", FALSE) >>),
       Cls("C", << Fld("depends_on", Named("B"), "dependsOn", FALSE) >>),
       Cls("E", << Fld("depends_on", Named("D"), "dependsOn", FALSE) >>),
       Cls("D", << Fld("depends_on", Named("C"), "dependsOn", FALSE),
                   Fld("also_depends_on", Opt(Named("E")), "alsoDependsOn", TRUE) >>) >>

SliceOfUserType ==
    << Cls("Video", << Fld("tags", ListOf(Named("Tag")), "", FALSE) >>) >>

SerializeFieldAs ==
    << Cls("EditItemViewModelSaveRequest",
           << Fld("context", Prim("str"), "", FALSE),
              Fld("values", ListOf(Named("EditItemSaveValue")), "", FALSE),
              Fld("fill_action", Opt(Named("AutoFillItemActionRequest")), "", TRUE) >>) >>

SerdeRename ==
    << Cls("Person",
           << Fld("name", Prim("str"), "", FALSE),
              Fld("age", Prim("int"), "", FALSE),
              Fld("extra_special_field_1", Prim("int"), "extraSpecialFieldOne", FALSE),
              Fld("extra_special_field_2", Opt(ListOf(Prim("str"))), "extraSpecialFieldTwo", FALSE),
              Fld("non_standard_data_type", Named("OtherType"), "nonStandardDataType", FALSE),
              Fld("non_standard_data_type_in_array", Opt(ListOf(Named("OtherType"))),
                  "nonStandardDataTypeInArray", FALSE) >>),
       Cls("OtherType", << >>) >>

OptionalTypeAlias ==
    << AliasDef("OptionalU16", Opt(Prim("int"))),
       AliasDef("OptionalU32", Opt(Prim("int"))),
       Cls("FooBar", << Fld("foo", Named("OptionalU32"), "", FALSE),
                        Fld("bar", Named("OptionalU16"), "", FALSE) >>) >>

QualifiedType ==
    << Cls("QualifiedTypes",
           << Fld("unqualified", Prim("str"), "", FALSE),
              Fld("qualified", Prim("str"), "", FALSE),
              Fld("qualified_vec", ListOf(Prim("str")), "", FALSE),
              Fld("qualified_hashmap", DictOf(Prim("str")), "", FALSE),
              Fld("qualified_optional", Opt(Prim("str")), "", TRUE),
              Fld("qualfied_optional_hashmap_vec", Opt(DictOf(ListOf(Prim("str")))), "", TRUE) >>) >>

UnitType ==
    << Cls("StructHasVoidType", << Fld("this_is_a_unit", Prim("None"), "thisIsAUnit", FALSE) >>),
       StrEnum("EnumHasVoidTypeTypes", << Member("HAS_A_UNIT", "hasAUnit") >>),
       Cls("EnumHasVoidTypeHasAUnit",
           << TypeField("type", "EnumHasVoidTypeTypes", "HAS_A_UNIT"),
              Fld("content", Prim("None"), "", FALSE) >>),
       AliasDef("EnumHasVoidType", Named("EnumHasVoidTypeHasAUnit")) >>

AnonymousStruct ==
    << Cls("AutofilledByUsInner", << Fld("uuid", Prim("str"), "", FALSE) >>),
       Cls("AutofilledBySomethingElseInner",
           << Fld("uuid", Prim("str"), "", FALSE), Fld("thing", Prim("int"), "", FALSE) >>),
       StrEnum("AutofilledByTypes",
           << Member("US", "Us"), Member("SOMETHING_ELSE", "SomethingElse") >>),
       Cls("AutofilledByUs",
           << TypeField("type", "AutofilledByTypes", "US"),
              Fld("content", Named("AutofilledByUsInner"), "", FALSE) >>),
       Cls("AutofilledBySomethingElse",
           << TypeField("type", "AutofilledByTypes", "SOMETHING_ELSE"),
              Fld("content", Named("AutofilledBySomethingElseInner"), "", FALSE) >>),
       AliasDef("AutofilledBy", UnionOf(<< "AutofilledByUs", "AutofilledBySomethingElse" >>)),
       Cls("EnumWithManyVariantsAnonVariantInner", << Fld("uuid", Prim("str"), "", FALSE) >>),
       Cls("EnumWithManyVariantsAnotherAnonVariantInner",
           << Fld("uuid", Prim("str"), "", FALSE), Fld("thing", Prim("int"), "", FALSE) >>),
       StrEnum("EnumWithManyVariantsTypes",
           << Member("UNIT_VARIANT", "UnitVariant"),
              Member("TUPLE_VARIANT_STRING", "TupleVariantString"),
              Member("ANON_VARIANT", "AnonVariant"),
              Member("TUPLE_VARIANT_INT", "TupleVariantInt"),
              Member("ANOTHER_UNIT_VARIANT", "AnotherUnitVariant"),
              Member("ANOTHER_ANON_VARIANT", "AnotherAnonVariant") >>),
       Cls("EnumWithManyVariantsUnitVariant",
           << TypeField("type", "EnumWithManyVariantsTypes", "UNIT_VARIANT") >>),
       Cls("EnumWithManyVariantsTupleVariantString",
           << TypeField("type", "EnumWithManyVariantsTypes", "TUPLE_VARIANT_STRING"),
              Fld("content", Prim("str"), "", FALSE) >>),
       Cls("EnumWithManyVariantsAnonVariant",
           << TypeField("type", "EnumWithManyVariantsTypes", "ANON_VARIANT"),
              Fld("content", Named("EnumWithManyVariantsAnonVariantInner"), "", FALSE) >>),
       Cls("EnumWithManyVariantsTupleVariantInt",
           << TypeField("type", "EnumWithManyVariantsTypes", "TUPLE_VARIANT_INT"),
              Fld("content", Prim("int"), "", FALSE) >>),
       Cls("EnumWithManyVariantsAnotherUnitVariant",
           << TypeField("type", "EnumWithManyVariantsTypes", "ANOTHER_UNIT_VARIANT") >>),
       Cls("EnumWithManyVariantsAnotherAnonVariant",
           << TypeField("type", "EnumWithManyVariantsTypes", "ANOTHER_ANON_VARIANT"),
              Fld("content", Named("EnumWithManyVariantsAnotherAnonVariantInner"), "", FALSE) >>),
       AliasDef("EnumWithManyVariants",
           UnionOf(<< "EnumWithManyVariantsUnitVariant",
                      "EnumWithManyVariantsTupleVariantString",
                      "EnumWithManyVariantsAnonVariant",
                      "EnumWithManyVariantsTupleVariantInt",
                      "EnumWithManyVariantsAnotherUnitVariant",
                      "EnumWithManyVariantsAnotherAnonVariant" >>)) >>

ExcludedByTargetOs ==
    << Cls("AlwaysAccept", << >>),
       Cls("DefinedTwice", << Fld("field_1", Prim("str"), "field1", FALSE) >>),
       Cls("Excluded", << >>),
       Cls("ManyStruct", << >>),
       Cls("MultipleTargets", << >>),
       Cls("NestedNotTarget1", << >>),
       Cls("OtherExcluded", << >>),
       StrEnum("AlwaysAcceptEnum",
           << Member("VARIANT1", "Variant1"), Member("VARIANT2", "Variant2") >>),
       StrEnum("SomeEnum", << >>),
       Cls("TestEnumVariant7Inner", << Fld("field_1", Prim("str"), "field1", FALSE) >>),
       Cls("TestEnumVariant9Inner", << Fld("field_2", Prim("str"), "field2", FALSE) >>),
       StrEnum("TestEnumTypes",
           << Member("VARIANT_1", "Variant1"), Member("VARIANT_5", "Variant5"),
              Member("VARIANT_7", "Variant7"), Member("VARIANT_8", "Variant8"),
              Member("VARIANT_9", "Variant9") >>),
       Cls("TestEnumVariant1", << TypeField("type", "TestEnumTypes", "VARIANT_1") >>),
       Cls("TestEnumVariant5", << TypeField("type", "TestEnumTypes", "VARIANT_5") >>),
       Cls("TestEnumVariant7",
           << TypeField("type", "TestEnumTypes", "VARIANT_7"),
              Fld("content", Named("TestEnumVariant7Inner"), "", FALSE) >>),
       Cls("TestEnumVariant8", << TypeField("type", "TestEnumTypes", "VARIANT_8") >>),
       Cls("TestEnumVariant9",
           << TypeField("type", "TestEnumTypes", "VARIANT_9"),
              Fld("content", Named("TestEnumVariant9Inner"), "", FALSE) >>),
       AliasDef("TestEnum",
           UnionOf(<< "TestEnumVariant1", "TestEnumVariant5", "TestEnumVariant7",
                      "TestEnumVariant8", "TestEnumVariant9" >>)) >>

KebabCaseInnerUnconverted ==
    Cls("AnonymousStructWithRenameKebabCaseInner",
        << Fld("another_list", ListOf(Prim("str")), "", FALSE),
           Fld("camel_case_string_field", Prim("str"), "camelCaseStringField", FALSE),
           Fld("something_else", Prim("bool"), "something-else", FALSE) >>)

KebabCaseInner ==
    Cls("AnonymousStructWithRenameKebabCaseInner",
        << Fld("another_list", ListOf(Prim("str")), "another-list", FALSE),
           Fld("camel_case_string_field", Prim("str"), "camelCaseStringField", FALSE),
           Fld("something_else", Prim("bool"), "something-else", FALSE) >>)

AnonymousStructWithRename ==
    << Cls("AnonymousStructWithRenameListInner",
           << Fld("list", ListOf(Prim("str")), "", FALSE) >>),
       Cls("AnonymousStructWithRenameLongFieldNamesInner",
           << Fld("some_long_field_name", Prim("str"), "", FALSE),
              Fld("and_", Prim("bool"), "and", FALSE),
              Fld("but_one_more", ListOf(Prim("str")), "", FALSE) >>),
       KebabCaseInner,
       StrEnum("AnonymousStructWithRenameTypes",
           << Member("LIST", "list"), Member("LONG_FIELD_NAMES", "longFieldNames"),
              Member("KEBAB_CASE", "kebabCase") >>),
       Cls("AnonymousStructWithRenameList",
           << TypeField("type", "AnonymousStructWithRenameTypes", "LIST"),
              Fld("content", Named("AnonymousStructWithRenameListInner"), "", FALSE) >>),
       Cls("AnonymousStructWithRenameLongFieldNames",
           << TypeField("type", "AnonymousStructWithRenameTypes", "LONG_FIELD_NAMES"),
              Fld("content", Named("AnonymousStructWithRenameLongFieldNamesInner"), "", FALSE) >>),
       Cls("AnonymousStructWithRenameKebabCase",
           << TypeField("type", "AnonymousStructWithRenameTypes", "KEBAB_CASE"),
              Fld("content", Named("AnonymousStructWithRenameKebabCaseInner"), "", FALSE) >>),
       AliasDef("AnonymousStructWithRename",
           UnionOf(<< "AnonymousStructWithRenameList",
                      "AnonymousStructWithRenameLongFieldNames",
                      "AnonymousStructWithRenameKebabCase" >>)) >>

SmartPointers ==
    << Cls("ArcyColors",
           << Fld("red", Prim("int"), "", FALSE), Fld("blue", Prim("str"), "", FALSE),
              Fld("green", ListOf(Prim("str")), "", FALSE) >>),
       Cls("CellyColors",
           << Fld("red", Prim("str"), "", FALSE), Fld("blue", ListOf(Prim("str")), "", FALSE) >>),
       Cls("CowyColors", << Fld("lifetime", Prim("str"), "", FALSE) >>),
       Cls("LockyColors", << Fld("red", Prim("str"), "", FALSE) >>),
       Cls("MutexyColors",
           << Fld("blue", ListOf(Prim("str")), "", FALSE), Fld("green", Prim("str"), "", FALSE) >>),
       Cls("RcyColors",
           << Fld("red", Prim("str"), "", FALSE), Fld("blue", ListOf(Prim("str")), "", FALSE),
              Fld("green", Prim("str"), "", FALSE) >>),
       StrEnum("BoxyColorsTypes",
           << Member("RED", "Red"), Member("BLUE", "Blue"), Member("GREEN", "Green") >>),
       Cls("BoxyColorsRed", << TypeField("type", "BoxyColorsTypes", "RED") >>),
       Cls("BoxyColorsBlue", << TypeField("type", "BoxyColorsTypes", "BLUE") >>),
       Cls("BoxyColorsGreen",
           << TypeField("type", "BoxyColorsTypes", "GREEN"),
              Fld("content", Prim("str"), "", FALSE) >>),
       AliasDef("BoxyColors",
           UnionOf(<< "BoxyColorsRed", "BoxyColorsBlue", "BoxyColorsGreen" >>)) >>

SerializeAnonymousFieldAs ==
    << StrEnum("SomeEnumTypes", << Member("CONTEXT", "Context"), Member("OTHER", "Other") >>),
       Cls("SomeEnumContext",
           << TypeField("type", "SomeEnumTypes", "CONTEXT"),
              Fld("content", Prim("str"), "", FALSE) >>),
       Cls("SomeEnumOther",
           << TypeField("type", "SomeEnumTypes", "OTHER"),
              Fld("content", Prim("int"), "", FALSE) >>),
       AliasDef("SomeEnum", UnionOf(<< "SomeEnumContext", "SomeEnumOther" >>)) >>

ApplyPrefix ==
    << Cls("ItemDetailsFieldValue", << Fld("hello", Prim("str"), "", FALSE) >>),
       StrEnum("AdvancedColorsTypes",
           << Member("STRING", "String"), Member("NUMBER", "Number"),
              Member("NUMBER_ARRAY", "NumberArray"),
              Member("REALLY_COOL_TYPE", "ReallyCoolType"),
              Member("ARRAY_REALLY_COOL_TYPE", "ArrayReallyCoolType"),
              Member("DICTIONARY_REALLY_COOL_TYPE", "DictionaryReallyCoolType") >>),
       Cls("AdvancedColorsString",
           << TypeField("t", "AdvancedColorsTypes", "STRING"),
              Fld("c", Prim("str"), "", FALSE) >>),
       Cls("AdvancedColorsNumber",
           << TypeField("t", "AdvancedColorsTypes", "NUMBER"),
              Fld("c", Prim("int"), "", FALSE) >>),
       Cls("AdvancedColorsNumberArray",
           << TypeField("t", "AdvancedColorsTypes", "NUMBER_ARRAY"),
              Fld("c", ListOf(Prim("int")), "", FALSE) >>),
       Cls("AdvancedColorsReallyCoolType",
           << TypeField("t", "AdvancedColorsTypes", "REALLY_COOL_TYPE"),
              Fld("c", Named("ItemDetailsFieldValue"), "", FALSE) >>),
       Cls("AdvancedColorsArrayReallyCoolType",
           << TypeField("t", "AdvancedColorsTypes", "ARRAY_REALLY_COOL_TYPE"),
              Fld("c", ListOf(Named("ItemDetailsFieldValue")), "", FALSE) >>),
       Cls("AdvancedColorsDictionaryReallyCoolType",
           << TypeField("t", "AdvancedColorsTypes", "DICTIONARY_REALLY_COOL_TYPE"),
              Fld("c", DictOf(Named("ItemDetailsFieldValue")), "", FALSE) >>),
       AliasDef("AdvancedColors",
           UnionOf(<< "AdvancedColorsString", "AdvancedColorsNumber",
                      "AdvancedColorsNumberArray", "AdvancedColorsReallyCoolType",
                      "AdvancedColorsArrayReallyCoolType",
                      "AdvancedColorsDictionaryReallyCoolType" >>)) >>

ModuleNames ==
    { "orders_types", "can_generate_slice_of_user_type", "serialize_field_as",
      "can_handle_serde_rename", "test_optional_type_alias", "resolves_qualified_type",
      "can_handle_unit_type", "can_handle_anonymous_struct", "excluded_by_target_os",
      "anonymous_struct_with_rename", "smart_pointers", "serialize_anonymous_field_as",
      "can_apply_prefix_correctly" }

(* The statements of a generated module, in file order.                     *)
Statements(m) ==
    CASE m = "orders_types" -> OrdersTypes
      [] m = "can_generate_slice_of_user_type" -> SliceOfUserType
      [] m = "serialize_field_as" -> SerializeFieldAs
      [] m = "can_handle_serde_rename" -> SerdeRename
      [] m = "test_optional_type_alias" -> OptionalTypeAlias
      [] m = "resolves_qualified_type" -> QualifiedType
      [] m = "can_handle_unit_type" -> UnitType
      [] m = "can_handle_anonymous_struct" -> AnonymousStruct
      [] m = "excluded_by_target_os" -> ExcludedByTargetOs
      [] m = "anonymous_struct_with_rename" -> AnonymousStructWithRename
      [] m = "smart_pointers" -> SmartPointers
      [] m = "serialize_anonymous_field_as" -> SerializeAnonymousFieldAs
      [] m = "can_apply_prefix_correctly" -> ApplyPrefix

----------------------------------------------------------------------------
(* Names and references.                                                    *)

Range(seq) == { seq[i] : i \in 1..Len(seq) }

(* Every name a type expression mentions.                                   *)
RECURSIVE Refs(_)
Refs(t) ==
    IF t.k = "named" THEN { t.n }
    ELSE UNION { Refs(t.of[i]) : i \in 1..Len(t.of) }

(* The names a type expression holds without an Optional in between: the    *)
(* direct, list-element and map-value references.                           *)
RECURSIVE StrongRefs(_)
StrongRefs(t) ==
    IF t.k = "named" THEN { t.n }
    ELSE IF t.k = "opt" THEN { }
    ELSE UNION { StrongRefs(t.of[i]) : i \in 1..Len(t.of) }

StatementRefs(st) ==
    Refs(st.ty) \cup UNION { Refs(st.fields[i].ty) : i \in 1..Len(st.fields) }

StatementStrongRefs(st) ==
    StrongRefs(st.ty) \cup UNION { StrongRefs(st.fields[i].ty) : i \in 1..Len(st.fields) }

DeclaredNames(m) == { Statements(m)[i].name : i \in 1..Len(Statements(m)) }

(* Position of a name in the module, 0 when the module never declares it.   *)
IndexOf(m, name) ==
    IF name \in DeclaredNames(m)
    THEN CHOOSE i \in 1..Len(Statements(m)) : Statements(m)[i].name = name
    ELSE 0

StatementOf(m, name) == Statements(m)[IndexOf(m, name)]

(* The key a field is read from on the wire.                                *)
WireKey(f) == IF f.alias = "" THEN f.id ELSE f.alias

----------------------------------------------------------------------------
(* Decoding a wire object with a BaseModel class.                           *)

KeyStates == { "absent", "null", "value" }

(* Whether null is a value of the annotation: Optional[...], None itself,   *)
(* or a module-level alias of such a type.                                  *)
RECURSIVE AcceptsNone(_, _)
AcceptsNone(m, t) ==
    CASE t.k = "opt" -> TRUE
      [] t.k = "prim" -> t.n = "None"
      [] t.k = "named" ->
            /\ t.n \in DeclaredNames(m)
            /\ StatementOf(m, t.n).kind = "alias"
            /\ AcceptsNone(m, StatementOf(m, t.n).ty)
      [] t.k = "union" -> \E i \in 1..Len(t.of) : AcceptsNone(m, t.of[i])
      [] OTHER -> FALSE

(* What one field makes of its key: a key that is absent needs a default,   *)
(* a null needs an annotation that admits None.                             *)
FieldError(m, f, keyState) ==
    CASE keyState = "absent" -> IF f.hasDefault THEN "" ELSE "missing"
      [] keyState = "null" -> IF AcceptsNone(m, f.ty) THEN "" ELSE "none_not_allowed"
      [] OTHER -> ""

(* model_validate: the class must be fully defined (every name of its       *)
(* annotations bound in the module), then every field is checked.           *)
ModelValidate(m, bound, st, wire) ==
    IF ~ (StatementRefs(st) \subseteq bound) THEN "NotFullyDefined"
    ELSE IF \E i \in 1..Len(st.fields) : FieldError(m, st.fields[i], wire[i]) # ""
    THEN "ValidationError"
    ELSE "ok"

----------------------------------------------------------------------------
(* The byte-sequence codec of the generated modules.                        *)

MaxListLen == 2

(* JSON values as Python sees them. A bool carries its int value: bool is   *)
(* a subclass of int, True == 1 and False == 0.                             *)
IntElem(n) == [t |-> "int", v |-> n]
BoolElem(b) == [t |-> "bool", v |-> IF b THEN 1 ELSE 0]
FloatElem == [t |-> "float", v |-> 1]
StrElem == [t |-> "str", v |-> 0]
NullElem == [t |-> "null", v |-> 0]

ByteRange == 0..255

Elements ==
    { IntElem(n) : n \in { -1, 0, 1, 255, 256 } }
      \cup { BoolElem(TRUE), BoolElem(FALSE), FloatElem, StrElem, NullElem }

SeqsUpTo(S, n) == UNION { [1..k -> S] : k \in 0..n }

ListValue(items) == [t |-> "list", items |-> items]
BytesValue(items) == [t |-> "bytes", items |-> items]
OtherValue(t) == [t |-> t, items |-> <<>>]

WireValues ==
    { ListValue(items) : items \in SeqsUpTo(Elements, MaxListLen) }
      \cup { BytesValue(items) : items \in SeqsUpTo({ 0, 1, 255 }, MaxListLen) }
      \cup { OtherValue(t) : t \in { "str", "int", "dict", "null" } }

(* isinstance(x, int)                                                       *)
IsInstanceInt(x) == x.t \in { "int", "bool" }

Returned(items) == [ok |-> TRUE, raised |-> "", items |-> items]
Raised(exc) == [ok |-> FALSE, raised |-> exc, items |-> <<>>]
NotCalled == [ok |-> FALSE, raised |-> "not called", items |-> <<>>]

deserialize_binary_data(val) ==
    IF val.t = "list"
    THEN IF \A i \in 1..Len(val.items) :
              IsInstanceInt(val.items[i]) /\ 0 <= val.items[i].v /\ val.items[i].v <= 255
         THEN Returned([i \in 1..Len(val.items) |-> val.items[i].v])
         ELSE Raised("ValueError")
    ELSE IF val.t = "bytes" THEN Returned(val.items)
    ELSE Raised("TypeError")

(* list(value): one int per byte, in order.                                 *)
serialize_binary_data(bytes) == [i \in 1..Len(bytes) |-> IntElem(bytes[i])]

DeserializeBinaryData ==
    /\ binary = NotCalled
    /\ binary' = deserialize_binary_data(value)
    /\ UNCHANGED <<value, serialized, exceptBytes>>

SerializeBinaryData ==
    /\ binary.ok
    /\ serialized' = serialize_binary_data(binary.items)
    /\ UNCHANGED <<value, binary, exceptBytes>>

IsByteArray(val) ==
    /\ val.t = "list"
    /\ \A i \in 1..Len(val.items) : val.items[i].t = "int" /\ val.items[i].v \in ByteRange

(* C8: an array of integers 0..255 survives decode then encode; an array    *)
(* holding an element that is out of range or not an integer is rejected,   *)
(* and so is a wire value that is neither an array nor a byte sequence.     *)
C8_ByteCodec ==
    binary # NotCalled =>
        /\ IsByteArray(value) =>
              /\ binary.ok
              /\ serialize_binary_data(binary.items) = value.items
        /\ (value.t = "list" /\ ~ IsByteArray(value)) => ~ binary.ok
        /\ value.t \notin { "list", "bytes" } => ~ binary.ok

----------------------------------------------------------------------------
(* The lenient timestamp codec of the generated modules.                    *)

MaxSecond == 1
MaxFracDigits == 6

(* %f reads one to six digits.                                              *)
MicrosecondDigits == 6

FracDigits == { 0, 5 }

(* A wire string: the "%Y-%m-%dT%H:%M:%S" part (a whole-second instant),    *)
(* then an optional "." and digits, then the zone suffix.                   *)
DateStr(secs, dot, frac, tz) == [secs |-> secs, dot |-> dot, frac |-> frac, tz |-> tz]

DateStrings ==
    { DateStr(s, d, f, tz) :
        s \in 0..MaxSecond, d \in BOOLEAN,
        f \in SeqsUpTo(FracDigits, MaxFracDigits), tz \in { "Z", "", "+00:00" } }
      \ { x \in [secs : 0..MaxSecond, dot : { FALSE },
                 frac : SeqsUpTo(FracDigits, MaxFracDigits), tz : { "Z", "", "+00:00" }] :
            x.frac # <<>> }

RECURSIVE Pow10(_)
Pow10(n) == IF n = 0 THEN 1 ELSE 10 * Pow10(n - 1)

(* The digits of %f, zero-padded on the right to six.                       *)
RECURSIVE Microseconds(_)
Microseconds(frac) ==
    IF frac = <<>> THEN 0
    ELSE frac[1] * Pow10(MicrosecondDigits - 1) + Microseconds(Tail(frac)) \div 10

Datetime(secs, micro) == [ok |-> TRUE, raised |-> "", secs |-> secs, microsecond |-> micro]
TimeError(exc) == [ok |-> FALSE, raised |-> exc, secs |-> 0, microsecond |-> 0]
NoTime == [ok |-> FALSE, raised |-> "not called", secs |-> 0, microsecond |-> 0]
NoDateStr == DateStr(0, FALSE, <<>>, "none")

(* datetime.strptime(date_str, fmt) for the two formats of date_formats.    *)
strptime(str, fmt) ==
    CASE fmt = "%Y-%m-%dT%H:%M:%SZ" ->
            IF ~ str.dot /\ str.frac = <<>> /\ str.tz = "Z"
            THEN Datetime(str.secs, 0) ELSE TimeError("ValueError")
      [] fmt = "%Y-%m-%dT%H:%M:%S.%fZ" ->
            IF str.dot /\ Len(str.frac) \in 1..MicrosecondDigits /\ str.tz = "Z"
            THEN Datetime(str.secs, Microseconds(str.frac)) ELSE TimeError("ValueError")

date_formats == << "%Y-%m-%dT%H:%M:%SZ", "%Y-%m-%dT%H:%M:%S.%fZ" >>

RECURSIVE TryFormats(_, _)
TryFormats(str, formats) ==
    IF formats = <<>> THEN TimeError("ValueError")
    ELSE LET r == strptime(str, Head(formats)) IN
           IF r.ok THEN r ELSE TryFormats(str, Tail(formats))

parse_rfc3339(str) == TryFormats(str, date_formats)

serialize_datetime_with_fraction(t) ==
    IF t.microsecond = 0 THEN DateStr(t.secs, FALSE, <<>>, "Z")
    ELSE DateStr(t.secs, TRUE, << t.microsecond \div Pow10(MicrosecondDigits - 1) >>, "Z")

(* utc_time.strftime("%Y-%m-%dT%H:%M:%SZ")                                  *)
serialize_datetime_data(t) == DateStr(t.secs, FALSE, <<>>, "Z")

ParseRfc3339 ==
    /\ utc_time = NoTime
    /\ utc_time' = parse_rfc3339(date_str)
    /\ UNCHANGED <<date_str, time_str, reparsed, exceptTime>>

SerializeDatetimeData ==
    /\ utc_time.ok
    /\ time_str = NoDateStr
    /\ time_str' = serialize_datetime_data(utc_time)
    /\ UNCHANGED <<date_str, utc_time, reparsed, exceptTime>>

Reparse ==
    /\ time_str # NoDateStr
    /\ reparsed = NoTime
    /\ reparsed' = parse_rfc3339(time_str)
    /\ UNCHANGED <<date_str, utc_time, time_str, exceptTime>>

WholeSecondForm(str) == ~ str.dot /\ str.frac = <<>> /\ str.tz = "Z"
FractionalSecondForm(str) ==
    str.dot /\ Len(str.frac) \in 1..MicrosecondDigits /\ str.tz = "Z"

----------------------------------------------------------------------------
(* The Target Filter.                                                       *)

MaxDefs == 2

Platforms == { "ios", "android" }
NoPlatform == "none"
Requests == Platforms \cup { NoPlatform }
TagSets == SUBSET Platforms

(* A field of a struct or a variant of an enum, with its target-os tags.    *)
Item(name, tags) == [name |-> name, tags |-> tags]

(* A type definition: its tags and its fields or variants.                  *)
TypeDefinition(name, kind, tags, items) ==
    [name |-> name, kind |-> kind, tags |-> tags, items |-> items]

DefinitionName(i) == << "T", i >>

Units ==
    UNION { { [i \in 1..n |->
                 TypeDefinition(DefinitionName(i), kinds[i], tags[i],
                                << Item("m1", itemTags[i]) >>)] :
              kinds \in [1..n -> { "struct", "enum" }],
              tags \in [1..n -> TagSets],
              itemTags \in [1..n -> TagSets] } : n \in 1..MaxDefs }

RetainedWhenTagged(tags, request) == tags # { } /\ request \in tags

(* An item is kept when it is universal or tagged for the request.          *)
Retained(tags, request) == tags = { } \/ request \in tags

FilterItems(items, request) ==
    SelectSeq(items, LAMBDA it : Retained(it.tags, request))

TargetFilter(unit, request) ==
    LET kept == SelectSeq(unit, LAMBDA d : Retained(d.tags, request)) IN
      [i \in 1..Len(kept) |-> [kept[i] EXCEPT !.items = FilterItems(kept[i].items, request)]]

NotRequested == "pending"

ApplyTargetFilter ==
    /\ requested = NotRequested
    /\ \E request \in Requests :
         /\ requested' = request
         /\ filtered' = TargetFilter(ir, request)
    /\ UNCHANGED <<ir, exceptFilter>>

NamesOf(seq) == { seq[i].name : i \in 1..Len(seq) }

----------------------------------------------------------------------------
(* The Case/Naming Resolver. Identifiers are sequences of characters.       *)

MaxIdentLen == 3

LowerLetters ==
    << "a", "b", "c", "d", "e", "f", "g", "h", "i", "j", "k", "l", "m",
       "n", "o", "p", "q", "r", "s", "t", "u", "v", "w", "x", "y", "z" >>
UpperLetters ==
    << "A", "B", "C", "D", "E", "F", "G", "H", "I", "J", "K", "L", "M",
       "N", "O", "P", "Q", "R", "S", "T", "U", "V", "W", "X", "Y", "Z" >>

Upper(c) ==
    IF \E i \in 1..Len(LowerLetters) : LowerLetters[i] = c
    THEN UpperLetters[CHOOSE i \in 1..Len(LowerLetters) : LowerLetters[i] = c]
    ELSE c

Lower(c) ==
    IF \E i \in 1..Len(UpperLetters) : UpperLetters[i] = c
    THEN LowerLetters[CHOOSE i \in 1..Len(UpperLetters) : UpperLetters[i] = c]
    ELSE c

(* The text of a character sequence.                                        *)
RECURSIVE Str(_)
Str(cs) == IF cs = <<>> THEN "" ELSE Head(cs) \o Str(Tail(cs))

(* The words of an underscore-delimited identifier.                         *)
RECURSIVE Words(_, _)
Words(cs, word) ==
    IF cs = <<>> THEN << word >>
    ELSE IF Head(cs) = "_" THEN << word >> \o Words(Tail(cs), <<>>)
    ELSE Words(Tail(cs), Append(word, Head(cs)))

Capitalize(word) ==
    IF word = <<>> THEN <<>> ELSE << Upper(Head(word)) >> \o Tail(word)

LowerWord(word) == [i \in 1..Len(word) |-> Lower(word[i])]

RECURSIVE Join(_, _)
Join(words, sep) ==
    IF words = <<>> THEN <<>>
    ELSE IF Len(words) = 1 THEN Head(words)
    ELSE Head(words) \o sep \o Join(Tail(words), sep)

CapitalizeAll(words) == [i \in 1..Len(words) |-> Capitalize(words[i])]
LowerAll(words) == [i \in 1..Len(words) |-> LowerWord(words[i])]

ToCamelCase(ident) ==
    LET words == Words(ident, <<>>) IN
      Join(<< Head(words) >> \o CapitalizeAll(Tail(words)), <<>>)

ToKebabCase(ident) == Join(LowerAll(Words(ident, <<>>)), << "-" >>)

ToPascalCase(ident) == Join(CapitalizeAll(Words(ident, <<>>)), <<>>)

Conventions == { "camelCase", "kebab-case", "PascalCase", "passthrough" }
NoConvention == "none"

ApplyConvention(conv, ident) ==
    CASE conv = "camelCase" -> ToCamelCase(ident)
      [] conv = "kebab-case" -> ToKebabCase(ident)
      [] conv = "PascalCase" -> ToPascalCase(ident)
      [] OTHER -> ident

(* A declared field: its identifier and its explicit rename, if any.        *)
DeclaredField(ident, renamed, rename) ==
    [ident |-> ident, renamed |-> renamed, rename |-> rename]

(* explicit rename > container convention > identifier unchanged            *)
ResolveWireName(f, conv) ==
    IF f.renamed THEN f.rename ELSE ApplyConvention(conv, f.ident)

AnotherList == << "a", "n", "o", "t", "h", "e", "r", "_", "l", "i", "s", "t" >>
CamelCaseStringField == << "c", "a", "m", "e", "l", "_", "c", "a", "s", "e", "_", "s", "t", "r", "i", "n", "g", "_", "f", "i", "e", "l", "d" >>
SomethingElse == << "s", "o", "m", "e", "t", "h", "i", "n", "g", "_", "e", "l", "s", "e" >>
DependsOn == << "d", "e", "p", "e", "n", "d", "s", "_", "o", "n" >>

(* The fields behind AnonymousStructWithRenameKebabCaseInner: a kebab-case  *)
(* variant whose second field carries its own rename.                       *)
KebabCaseFields ==
    << DeclaredField(AnotherList, FALSE, <<>>),
       DeclaredField(CamelCaseStringField, TRUE, << "c", "a", "m", "e", "l", "C", "a", "s", "e", "S", "t", "r", "i", "n", "g", "F", "i", "e", "l", "d" >>),
       DeclaredField(SomethingElse, FALSE, <<>>) >>

Identifiers ==
    (SeqsUpTo({ "a", "b", "_" }, MaxIdentLen) \ { <<>> })
      \cup { AnotherList, CamelCaseStringField, SomethingElse, DependsOn }

DeclaredFields ==
    { DeclaredField(id, FALSE, <<>>) : id \in Identifiers }
      \cup { DeclaredField(id, TRUE, << "x", "_", "Y" >>) : id \in Identifiers }
      \cup Range(KebabCaseFields)

Unresolved == << "?" >>

ResolveField ==
    /\ wire_name = Unresolved
    /\ wire_name' = ResolveWireName(field, convention)
    /\ UNCHANGED <<field, convention, exceptNaming>>

Positions(ident) == SelectSeq([i \in 1..Len(ident) |-> i], LAMBDA i : ident[i] # "_")

(* C5: an explicit rename is the wire name under any convention; without    *)
(* one, the convention rewrites the underscore-delimited identifier         *)
(* (kebab-case: lowercased, "_" to "-"; camelCase: "_" dropped, the letter  *)
(* after it uppercased); with neither, the identifier is the wire name.     *)
C5_WireName ==
    wire_name # Unresolved =>
        /\ field.renamed => wire_name = field.rename
        /\ (~ field.renamed /\ convention \in { NoConvention, "passthrough" }) =>
              wire_name = field.ident
        /\ (~ field.renamed /\ convention = "kebab-case") =>
              /\ Len(wire_name) = Len(field.ident)
              /\ \A i \in 1..Len(field.ident) :
                   wire_name[i] = IF field.ident[i] = "_" THEN "-" ELSE Lower(field.ident[i])
        /\ (~ field.renamed /\ convention = "camelCase") =>
              LET keep == Positions(field.ident) IN
                /\ Len(wire_name) = Len(keep)
                /\ \A k \in 1..Len(keep) :
                     wire_name[k] =
                       IF keep[k] > 1 /\ field.ident[keep[k] - 1] = "_"
                       THEN Upper(field.ident[keep[k]])
                       ELSE field.ident[keep[k]]
        /\ (~ field.renamed /\ field.ident = AnotherList /\ convention = "kebab-case") =>
              Str(wire_name) = "another-list"
        /\ (~ field.renamed /\ field.ident = AnotherList /\ convention = "camelCase") =>
              Str(wire_name) = "anotherList"
        /\ \A i \in 1..Len(KebabCaseFields) :
              /\ KebabCaseInner.fields[i].id = Str(KebabCaseFields[i].ident)
              /\ WireKey(KebabCaseInner.fields[i])
                   = Str(ResolveWireName(KebabCaseFields[i], "kebab-case"))

C5_Witness ==
    /\ field = DeclaredField(CamelCaseStringField, TRUE, << "c", "a", "m", "e", "l", "C", "a", "s", "e", "S", "t", "r", "i", "n", "g", "F", "i", "e", "l", "d" >>)
    /\ convention = "kebab-case"
    /\ Str(wire_name) = "camelCaseStringField"

----------------------------------------------------------------------------
(* The Literal Renderer and Python's reading of the literals it writes.     *)

MaxValueLen == 4

Backslash == "\\"
Tab == "\t"
Nul == "NUL"

(* One literal of the rendered expression; parts are joined with "+".       *)
LiteralPart(raw, quote, body) == [raw |-> raw, quote |-> quote, body |-> body]
TripleQuoted(body) == LiteralPart(FALSE, "\"\"\"", body)
RawTripleQuoted(body) == LiteralPart(TRUE, "\"\"\"", body)
SingleQuoted(body) == LiteralPart(FALSE, "'", body)

EscapedCharactersLiteral ==
    << TripleQuoted(<<
       "F", "i", "r", "s", "t", "\\", "\\", "l", "i", "n", "e", ".", "\n", "S", "e",
       "c", "o", "n", "d", " ", "\"", "q", "u", "o", "t", "e", "d", "\"", " ", "l",
       "i", "n", "e", ".", "\\", "t", "E", "n", "d", "." >>) >>

RawStringLiteral ==
    << RawTripleQuoted(<<
       "R", "a", "w", " ", "\\", "n", ",", " ", "\"", "q", "u", "o", "t", "e", "s",
       "\"", " ", "a", "r", "e", " ", "o", "k", "a", "y", ",", " ", "a", "n", "d", " ",
       "s", "i", "n", "g", "l", "e", " ", "\\", " ", "i", "s", " ", "f", "i", "n", "e",
       " ", "t", "o", "o" >>) >>

NullByteLiteral ==
    << TripleQuoted(<< "N", "u", "l", "l", ":", "\\", "x", "0", "0", "E", "n", "d" >>) >>

EndsWithOddBackslashVerbatim ==
    << RawTripleQuoted(<<
       "O", "d", "d", " ", "n", "u", "m", "b", "e", "r", " ", "o", "f", " ", "b", "a",
       "c", "k", "s", "l", "a", "s", "h", "e", "s", ":", " ", "\\", "\\" >>
         \o << "\\" >>) >>

EndsWithOddBackslashLiteral ==
    << RawTripleQuoted(<<
       "O", "d", "d", " ", "n", "u", "m", "b", "e", "r", " ", "o", "f", " ", "b", "a",
       "c", "k", "s", "l", "a", "s", "h", "e", "s", ":", " ", "\\", "\\" >>),
       SingleQuoted(<< "\\", "\\" >>) >>

RECURSIVE TrailingBackslashes(_)
TrailingBackslashes(cs) ==
    IF cs = <<>> \/ cs[Len(cs)] # Backslash THEN 0
    ELSE 1 + TrailingBackslashes(SubSeq(cs, 1, Len(cs) - 1))

Contains(cs, c) == \E i \in 1..Len(cs) : cs[i] = c

(* Characters a verbatim literal cannot carry as themselves.                *)
NeedsEscapeSequence(cs) == Contains(cs, Tab) \/ Contains(cs, Nul)

RECURSIVE Escape(_)
Escape(cs) ==
    IF cs = <<>> THEN <<>>
    ELSE (CASE Head(cs) = Backslash -> << "\\", "\\" >>
            [] Head(cs) = Tab -> << "\\", "t" >>
            [] Head(cs) = Nul -> << "\\", "x", "0", "0" >>
            [] OTHER -> << Head(cs) >>) \o Escape(Tail(cs))

(* A value with backslashes and nothing that needs an escape sequence is    *)
(* written verbatim; an odd trailing run of backslashes leaves its last     *)
(* backslash to a separate escaped literal.                                 *)
RenderString(val) ==
    IF Contains(val, Backslash) /\ ~ NeedsEscapeSequence(val)
    THEN IF TrailingBackslashes(val) % 2 = 1
         THEN << RawTripleQuoted(SubSeq(val, 1, Len(val) - 1)),
                 SingleQuoted(<< "\\", "\\" >>) >>
         ELSE << RawTripleQuoted(val) >>
    ELSE << TripleQuoted(Escape(val)) >>

Evaluated(cs) == [ok |-> TRUE, chars |-> cs]
SyntaxError == [ok |-> FALSE, chars |-> <<>>]
NotEvaluated == [ok |-> FALSE, chars |-> << "?" >>]

(* The escape sequences of a non-raw literal.                               *)
RECURSIVE Unescape(_)
Unescape(body) ==
    IF body = <<>> THEN Evaluated(<<>>)
    ELSE IF Head(body) # Backslash
    THEN LET rest == Unescape(Tail(body)) IN
           IF rest.ok THEN Evaluated(<< Head(body) >> \o rest.chars) ELSE SyntaxError
    ELSE IF Len(body) = 1 THEN SyntaxError
    ELSE IF body[2] = "x"
    THEN IF Len(body) >= 4 /\ body[3] = "0" /\ body[4] = "0"
         THEN LET rest == Unescape(SubSeq(body, 5, Len(body))) IN
                IF rest.ok THEN Evaluated(<< Nul >> \o rest.chars) ELSE SyntaxError
         ELSE SyntaxError
    ELSE LET rest == Unescape(SubSeq(body, 3, Len(body)))
             ch == CASE body[2] = Backslash -> << Backslash >>
                     [] body[2] = "t" -> << Tab >>
                     [] body[2] = "n" -> << "\n" >>
                     [] OTHER -> << Backslash, body[2] >>
         IN  IF rest.ok THEN Evaluated(ch \o rest.chars) ELSE SyntaxError

(* The delimiter closes at its first occurrence not preceded by a           *)
(* backslash: a body may neither hold the delimiter nor end in a quote      *)
(* character of it, and its last backslash must not be left unpaired.       *)
Closes(part) ==
    /\ TrailingBackslashes(part.body) % 2 = 0
    /\ part.body = <<>> \/ part.body[Len(part.body)] \notin { "\"", "'" }
         \/ (part.quote = "\"\"\"" /\ part.body[Len(part.body)] = "'")
    /\ ~ \E i \in 1..(Len(part.body) - 2) :
           part.quote = "\"\"\"" /\ part.body[i] = "\"" /\ part.body[i + 1] = "\""
             /\ part.body[i + 2] = "\""
             /\ ~ (i > 1 /\ part.body[i - 1] = Backslash)
    /\ part.quote = "'" => ~ Contains(part.body, "'") /\ ~ Contains(part.body, "\n")

EvaluatePart(part) ==
    IF ~ Closes(part) THEN SyntaxError
    ELSE IF part.raw THEN Evaluated(part.body)
    ELSE Unescape(part.body)

RECURSIVE EvaluateLiteral(_)
EvaluateLiteral(parts) ==
    IF parts = <<>> THEN Evaluated(<<>>)
    ELSE LET first == EvaluatePart(Head(parts))
             rest == EvaluateLiteral(Tail(parts))
         IN  IF first.ok /\ rest.ok THEN Evaluated(first.chars \o rest.chars) ELSE SyntaxError

ValueChars == { "a", Backslash, Tab }
ConstValues == SeqsUpTo(ValueChars, MaxValueLen)

NotRendered == << >>

Render ==
    /\ rendered = NotRendered
    /\ rendered' = RenderString(const_value)
    /\ UNCHANGED <<const_value, evaluated, exceptLiteral>>

Evaluate ==
    /\ rendered # NotRendered
    /\ evaluated = NotEvaluated
    /\ evaluated' = EvaluateLiteral(rendered)
    /\ UNCHANGED <<const_value, rendered, exceptLiteral>>

SnapshotLiterals ==
    { EscapedCharactersLiteral, RawStringLiteral, EndsWithOddBackslashLiteral,
      NullByteLiteral }

----------------------------------------------------------------------------
(* Loading a generated module and decoding with its classes.                *)

NoValidation == [cls |-> "", wire |-> <<>>, outcome |-> ""]

(* Execute the next top-level statement. Annotations are not evaluated      *)
(* (from __future__ import annotations); the right-hand side of an          *)
(* assignment is.                                                           *)
Exec ==
    /\ status = "loading"
    /\ pc < Len(Statements(module))
    /\ LET st == Statements(module)[pc + 1] IN
         IF st.kind = "alias" /\ ~ (Refs(st.ty) \subseteq Range(defined))
         THEN /\ status' = "NameError"
              /\ UNCHANGED <<pc, defined>>
         ELSE /\ pc' = pc + 1
              /\ defined' = Append(defined, st.name)
              /\ status' = IF pc + 1 = Len(Statements(module)) THEN "loaded" ELSE "loading"
    /\ UNCHANGED <<module, validated, exceptModule>>

(* Decode one wire object with one of the module's BaseModel classes.       *)
Validate ==
    /\ status = "loaded"
    /\ \E i \in 1..Len(Statements(module)) :
         LET st == Statements(module)[i] IN
           /\ st.kind = "class"
           /\ \E wire \in [1..Len(st.fields) -> KeyStates] :
                validated' = [cls |-> st.name, wire |-> wire,
                              outcome |-> ModelValidate(module, Range(defined), st, wire)]
    /\ UNCHANGED <<module, pc, defined, status, exceptModule>>

----------------------------------------------------------------------------
(* Emission order (C1, C2) and reference validity (C6).                     *)

(* The strong edges of a module: A -> B when A's declaration holds a        *)
(* non-optional reference to B and the module declares B.                   *)
StrongEdges(m) ==
    { <<Statements(m)[i].name, b>> :
        i \in 1..Len(Statements(m)),
        b \in DeclaredNames(m) } \cap
    { e \in DeclaredNames(m) \X DeclaredNames(m) :
        e[2] \in StatementStrongRefs(StatementOf(m, e[1])) }

RECURSIVE ReachFrom(_, _, _)
ReachFrom(edges, frontier, seen) ==
    LET next == { e[2] : e \in { x \in edges : x[1] \in frontier } } \ seen IN
      IF next = { } THEN seen ELSE ReachFrom(edges, next, seen \cup next)

StrongAcyclic(m) ==
    \A a \in DeclaredNames(m) : a \notin ReachFrom(StrongEdges(m), { a }, { })

DefinedBefore(b, i) == \E j \in 1..(i - 1) : defined[j] = b

(* C1: in a module whose strong-edge graph is acyclic, a declaration is     *)
(* emitted only after every declaration it holds a non-optional (direct,    *)
(* list-element or map-value) reference to.                                 *)
C1_StrongDependenciesFirst ==
    StrongAcyclic(module) =>
        \A i \in 1..Len(defined) :
            \A b \in StatementStrongRefs(StatementOf(module, defined[i])) \cap DeclaredNames(module) :
                DefinedBefore(b, i)

FieldTypes(m, name) ==
    LET st == StatementOf(m, name) IN [i \in 1..Len(st.fields) |-> st.fields[i].ty]

(* C2: the orders_types unit (B holds A, C holds B, D holds C and           *)
(* Optional<E>, E holds D) is emitted in exactly the order A, B, C, E, D.   *)
C2_OrdersTypesOrder ==
    (module = "orders_types" /\ status = "loaded") =>
        /\ defined = << "A", "B", "C", "E", "D" >>
        /\ FieldTypes(module, "B") = << Named("A") >>
        /\ FieldTypes(module, "C") = << Named("B") >>
        /\ FieldTypes(module, "D") = << Named("C"), Opt(Named("E")) >>
        /\ FieldTypes(module, "E") = << Named("D") >>

C2_Witness ==
    /\ module = "orders_types"
    /\ status = "loaded"
    /\ \E i, j \in 1..Len(defined) : i < j /\ defined[i] = "E" /\ defined[j] = "D"

(* C6: once a module is emitted, every name its declarations reference is   *)
(* a declaration of the same module (primitives are not names).             *)
C6_ReferencesResolve ==
    status = "loaded" =>
        \A i \in 1..Len(Statements(module)) :
            StatementRefs(Statements(module)[i]) \subseteq Range(defined)

----------------------------------------------------------------------------
(* Optional fields on decode (C7).                                          *)

(* Optional<T>, directly or through a type alias of the module.             *)
RECURSIVE IsOptional(_, _)
IsOptional(m, t) ==
    CASE t.k = "opt" -> TRUE
      [] t.k = "named" ->
            /\ t.n \in DeclaredNames(m)
            /\ StatementOf(m, t.n).kind = "alias"
            /\ IsOptional(m, StatementOf(m, t.n).ty)
      [] OTHER -> FALSE

(* The decoded object gave every key but the i-th a value.                  *)
OnlyKeyDiffers(wire, i) == \A j \in DOMAIN wire : j # i => wire[j] = "value"

(* C7: a wire object whose only irregularity is an optional field's key,    *)
(* absent or null, is accepted (by a class whose annotations all resolve).  *)
C7_OptionalAbsentOrNull ==
    validated # NoValidation =>
        LET st == StatementOf(module, validated.cls) IN
          \A i \in 1..Len(st.fields) :
              ( /\ StatementRefs(st) \subseteq Range(defined)
                /\ IsOptional(module, st.fields[i].ty)
                /\ OnlyKeyDiffers(validated.wire, i)
                /\ validated.wire[i] \in { "absent", "null" } )
              => validated.outcome = "ok"

----------------------------------------------------------------------------
(* Enum lowering as it shows in the output (C4).                            *)

IsDiscriminantOf(f, carrier) ==
    f.ty.k = "literal" /\ f.ty.of = << Named(carrier) >>

(* The per-variant declarations of an enum, in emission order: the classes  *)
(* whose first field is a Literal of the enum's constants.                  *)
VariantDecls(m, carrier) ==
    SelectSeq(Statements(m),
              LAMBDA st : /\ st.kind = "class"
                          /\ Len(st.fields) >= 1
                          /\ IsDiscriminantOf(st.fields[1], carrier))

(* The synthesized container of a variant declaration: <E><V>Inner.         *)
InnerName(variantClass) == variantClass \o "Inner"

(* C4: every enum constant has its own declaration, in declaration order;   *)
(* the declaration holds the discriminant field alone (Unit) or with one    *)
(* payload field (Tuple), and where <E><V>Inner is synthesized the payload  *)
(* field is typed by it (AnonymousStruct).                                  *)
C4_OneDeclarationPerVariant ==
    status = "loaded" =>
        \A i \in 1..Len(Statements(module)) :
            LET enum == Statements(module)[i]
                decls == VariantDecls(module, enum.name)
            IN  enum.kind = "strenum" =>
                  /\ Len(decls) = Len(enum.members)
                  /\ \A v \in 1..Len(decls) :
                       /\ decls[v].fields[1].ty.n = enum.members[v].id
                       /\ Len(decls[v].fields) \in { 1, 2 }
                       /\ InnerName(decls[v].name) \in DeclaredNames(module) =>
                            /\ Len(decls[v].fields) = 2
                            /\ decls[v].fields[2].ty = Named(InnerName(decls[v].name))
                            /\ StatementOf(module, InnerName(decls[v].name)).kind = "class"

----------------------------------------------------------------------------
(* Enums in the output after target filtering (C11, C12).                   *)

(* The class statements deriving from (str, Enum) executed so far.          *)
EnumsBound ==
    { i \in 1..pc : Statements(module)[i].kind = "strenum" }

(* The module binds the union of the enum's per-variant declarations:       *)
(*   <E> = Union[<E><V1>, <E><V2>, ...]                                     *)
(* which for a single declaration is that declaration: <E> = <E><V1>.       *)
HasUnionOfVariants(m, carrier) ==
    LET decls == VariantDecls(m, carrier) IN
      \E i \in 1..Len(Statements(m)) :
          /\ Statements(m)[i].kind = "alias"
          /\ \/ Statements(m)[i].ty = UnionOf([v \in 1..Len(decls) |-> decls[v].name])
             \/ Len(decls) = 1 /\ Statements(m)[i].ty = Named(decls[1].name)

(* C11: an enum left with zero variants is dropped from the output: no      *)
(* enum class with an empty body is ever bound while the module loads.      *)
C11_ZeroVariantEnumDropped ==
    \A i \in EnumsBound : Statements(module)[i].members # << >>

(* C12: an enum is never emitted as a bare set of string constants: every   *)
(* enum class with constants is a discriminant carrier, with one            *)
(* declaration per constant and the union of those declarations bound in    *)
(* the module.                                                              *)
C12_UnitEnumNotCollapsed ==
    status = "loaded" =>
        \A i \in EnumsBound :
            LET enum == Statements(module)[i] IN
              enum.members # << >> =>
                /\ Len(VariantDecls(module, enum.name)) = Len(enum.members)
                /\ HasUnionOfVariants(module, enum.name)

----------------------------------------------------------------------------
(* Specifications: one per component. A component's run leaves the other    *)
(* components' variables at rest.                                           *)

ModuleIdle ==
    /\ module = ""
    /\ pc = 0
    /\ defined = <<>>
    /\ status = "idle"
    /\ validated = NoValidation

BytesIdle ==
    /\ value = OtherValue("idle")
    /\ binary = NotCalled
    /\ serialized = <<>>

TimeIdle ==
    /\ date_str = NoDateStr
    /\ utc_time = NoTime
    /\ time_str = NoDateStr
    /\ reparsed = NoTime

FilterIdle ==
    /\ ir = <<>>
    /\ requested = "idle"
    /\ filtered = <<>>

NamingIdle ==
    /\ field = DeclaredField(<<>>, FALSE, <<>>)
    /\ convention = "idle"
    /\ wire_name = Unresolved

LiteralIdle ==
    /\ const_value = <<>>
    /\ rendered = NotRendered
    /\ evaluated = NotEvaluated

Init ==
    /\ module \in ModuleNames
    /\ pc = 0
    /\ defined = <<>>
    /\ status = "loading"
    /\ validated = NoValidation
    /\ BytesIdle
    /\ TimeIdle
    /\ FilterIdle
    /\ NamingIdle
    /\ LiteralIdle

Next == Exec \/ Validate

Spec == Init /\ [][Next]_vars

InitBytes ==
    /\ value \in WireValues
    /\ binary = NotCalled
    /\ serialized = <<>>
    /\ ModuleIdle
    /\ TimeIdle
    /\ FilterIdle
    /\ NamingIdle
    /\ LiteralIdle

NextBytes == DeserializeBinaryData \/ SerializeBinaryData

SpecBytes == InitBytes /\ [][NextBytes]_vars

InitTime ==
    /\ date_str \in DateStrings
    /\ utc_time = NoTime
    /\ time_str = NoDateStr
    /\ reparsed = NoTime
    /\ ModuleIdle
    /\ BytesIdle
    /\ FilterIdle
    /\ NamingIdle
    /\ LiteralIdle

NextTime == ParseRfc3339 \/ SerializeDatetimeData \/ Reparse

SpecTime == InitTime /\ [][NextTime]_vars

InitFilter ==
    /\ ir \in Units
    /\ requested = NotRequested
    /\ filtered = <<>>
    /\ ModuleIdle
    /\ BytesIdle
    /\ TimeIdle
    /\ NamingIdle
    /\ LiteralIdle

NextFilter == ApplyTargetFilter

SpecFilter == InitFilter /\ [][NextFilter]_vars

InitNaming ==
    /\ field \in DeclaredFields
    /\ convention \in Conventions \cup { NoConvention }
    /\ wire_name = Unresolved
    /\ ModuleIdle
    /\ BytesIdle
    /\ TimeIdle
    /\ FilterIdle
    /\ LiteralIdle

NextNaming == ResolveField

SpecNaming == InitNaming /\ [][NextNaming]_vars

InitLiteral ==
    /\ const_value \in ConstValues
    /\ rendered = NotRendered
    /\ evaluated = NotEvaluated
    /\ ModuleIdle
    /\ BytesIdle
    /\ TimeIdle
    /\ FilterIdle
    /\ NamingIdle

NextLiteral == Render \/ Evaluate

SpecLiteral == InitLiteral /\ [][NextLiteral]_vars

====
